---- MODULE Spec2Model ----
(***************************************************************************)
(* Model of scripts/process_track.py: the stem separation step             *)
(* (run_demucs), the buffer normalizer (trim_or_pad), the mix compositor   *)
(* (mix_stems), the mastering call (apply_mastering_ffmpeg) and the        *)
(* orchestrator (main).                                                    *)
(*                                                                         *)
(* Audio is modelled at the granularity of the pydub interface the script  *)
(* uses: an AudioSegment is a sequence of samples, one per millisecond, so *)
(* len(seg) is Len(seg), seg[:n] keeps the first n samples and             *)
(* AudioSegment.silent(duration=n) is n zero samples.                      *)
(***************************************************************************)
EXTENDS Integers, Sequences, FiniteSets, TLC

(***************************************************************************)
(* Bounds of the model.                                                    *)
(***************************************************************************)
\* longest buffer handed to trim_or_pad on its own
MaxBufLen == 3
\* longest stem or replacement buffer handed to mix_stems
MaxStemLen == 2

(***************************************************************************)
(* Program constants.                                                      *)
(***************************************************************************)
\* mix.set_sample_width(2): samples are 16-bit
SampleWidth == 2
\* ac=2 in the ffmpeg output arguments, set_channels(2) at export
Channels == 2
\* ar="44100" in the ffmpeg output arguments
MasterAr == 44100
\* limit_dbtp = -1.0
LimitDbtp == -1

MaxSample == 2 ^ (8 * SampleWidth - 1) - 1
MinSample == -(2 ^ (8 * SampleWidth - 1))

\* the decibel values the model draws gains from
GainValues == {-6, 0}

\* the sample values free-form buffers are built from
SampleValues == {0, 1000}

(***************************************************************************)
(* Optional values (Optional[AudioSegment], Optional[Path]).               *)
(***************************************************************************)
None == [present |-> FALSE, seg |-> <<>>]
Some(s) == [present |-> TRUE, seg |-> s]

Max(S) == CHOOSE m \in S : \A x \in S : x <= m

\* every buffer of at most n samples over SampleValues
BuffersUpTo(n) == UNION {[1..k -> SampleValues] : k \in 0..n}

(***************************************************************************)
(* db_to_ratio(db) = 10 ** (db / 20.0), in thousandths, for the decibel    *)
(* values the model uses (pydub's gain uses the same formula).             *)
(***************************************************************************)
db_to_ratio(db) ==
    CASE db = -6 -> 501
      [] db = -1 -> 891
      [] db = 0 -> 1000

Clip(v) == IF v > MaxSample THEN MaxSample ELSE IF v < MinSample THEN MinSample ELSE v

\* AudioSegment.silent(duration=n)
Silent(n) == [i \in 1..n |-> 0]

\* seg + db : every sample scaled by the ratio of db and clipped to the sample width
ApplyGain(seg, db) == [i \in 1..Len(seg) |-> Clip((seg[i] * db_to_ratio(db)) \div 1000)]

\* base.overlay(seg): as long as base; samples sum where seg overlaps base
Overlay(base, seg) ==
    [i \in 1..Len(base) |-> IF i <= Len(seg) THEN Clip(base[i] + seg[i]) ELSE base[i]]

(***************************************************************************)
(* trim_or_pad(seg, target_ms)                                             *)
(***************************************************************************)
trim_or_pad_no_pad(seg, target_ms) ==
    IF Len(seg) > target_ms THEN SubSeq(seg, 1, target_ms) ELSE seg

trim_or_pad(seg, target_ms) ==
    IF Len(seg) = target_ms THEN seg
    ELSE IF Len(seg) > target_ms THEN SubSeq(seg, 1, target_ms)
    ELSE seg \o Silent(target_ms - Len(seg))

(***************************************************************************)
(* mix_stems(vocals, drums, bass, other, replace_vocals,                   *)
(*           replace_instrumental, gains_db)                               *)
(* The six buffers are optional; gains_db is (vocals, drums, bass, other). *)
(***************************************************************************)
\* segments = [s for s in [...] if s is not None]
Segments(vocals, drums, bass, other, replace_vocals, replace_instrumental) ==
    {o \in {vocals, drums, bass, other, replace_vocals, replace_instrumental} : o.present}

\* target_len = max(len(s) for s in segments)
TargetLenStemsOnly(vocals, drums, bass, other, replace_vocals, replace_instrumental) ==
    Max({0} \cup {Len(o.seg) : o \in Segments(vocals, drums, bass, other, None, None)})

TargetLen(vocals, drums, bass, other, replace_vocals, replace_instrumental) ==
    Max({Len(o.seg) : o \in Segments(vocals, drums, bass, other, replace_vocals, replace_instrumental)})

\* safe(seg)
safe(seg, target_len) ==
    IF seg.present THEN trim_or_pad(seg.seg, target_len) ELSE Silent(target_len)

\* the instrumental bed
InstrumentalGainsOnReplacement(drums, bass, other, replace_instrumental, gains_db, target_len) ==
    IF replace_instrumental.present
    THEN ApplyGain(safe(replace_instrumental, target_len), gains_db[2])
    ELSE Overlay(Overlay(Overlay(Silent(target_len),
                                 ApplyGain(safe(drums, target_len), gains_db[2])),
                         ApplyGain(safe(bass, target_len), gains_db[3])),
                 ApplyGain(safe(other, target_len), gains_db[4]))

Instrumental(drums, bass, other, replace_instrumental, gains_db, target_len) ==
    IF replace_instrumental.present
    THEN safe(replace_instrumental, target_len)
    ELSE Overlay(Overlay(Overlay(Silent(target_len),
                                 ApplyGain(safe(drums, target_len), gains_db[2])),
                         ApplyGain(safe(bass, target_len), gains_db[3])),
                 ApplyGain(safe(other, target_len), gains_db[4]))

\* the vocal layer v
VocalLayerAddsStem(vocals, replace_vocals, gains_db, target_len) ==
    IF replace_vocals.present
    THEN Overlay(ApplyGain(safe(replace_vocals, target_len), gains_db[1]),
                 ApplyGain(safe(vocals, target_len), gains_db[1]))
    ELSE IF vocals.present
         THEN ApplyGain(safe(vocals, target_len), gains_db[1])
         ELSE Silent(target_len)

VocalLayer(vocals, replace_vocals, gains_db, target_len) ==
    IF replace_vocals.present
    THEN ApplyGain(safe(replace_vocals, target_len), gains_db[1])
    ELSE IF vocals.present
         THEN ApplyGain(safe(vocals, target_len), gains_db[1])
         ELSE Silent(target_len)

\* the result of a call: a mix, or the ValueError raised
Raised(kind) == [error |-> kind, seg |-> <<>>]
Returned(seg) == [error |-> "none", seg |-> seg]

EmptyCheckSkipped(segments) == FALSE

\* if not segments: raise ValueError("No audio segments to mix.")
NoSegments(segments) == segments = {}

mix_stems(vocals, drums, bass, other, replace_vocals, replace_instrumental, gains_db) ==
    IF NoSegments(Segments(vocals, drums, bass, other, replace_vocals, replace_instrumental))
    THEN Raised("ValueError")
    ELSE LET target_len == IF Segments(vocals, drums, bass, other, replace_vocals,
                                       replace_instrumental) = {}
                           THEN 0
                           ELSE TargetLen(vocals, drums, bass, other, replace_vocals,
                                          replace_instrumental)
             instrumental == Instrumental(drums, bass, other, replace_instrumental,
                                          gains_db, target_len)
             v == VocalLayer(vocals, replace_vocals, gains_db, target_len)
         IN Returned(Overlay(instrumental, v))

(***************************************************************************)
(* State.                                                                  *)
(***************************************************************************)
VARIABLES
    resizeCall,   \* a call of trim_or_pad: its arguments and, once made, its result
    mixCall,      \* a call of mix_stems: its arguments and, once made, its result
    cfg,          \* per run: the command line options of main
    pc,           \* per run: the statement of main / run_demucs it is at
    run,          \* per run: the local variables of main and run_demucs
    fs,           \* the filesystem: path -> node
    reads,        \* per run: the paths it has read so far
    writes,       \* per run: the paths it has created, replaced or deleted so far
    order,        \* per run: 0 before it starts, else its rank in start order
    concurrent    \* whether a run ever started while another was in flight

vars == <<resizeCall, mixCall, cfg, pc, run, fs, reads, writes, order, concurrent>>
callVars == <<resizeCall, mixCall>>
runVars == <<cfg, pc, run, fs, reads, writes, order, concurrent>>

(***************************************************************************)
(* Calls of the pure functions.                                            *)
(***************************************************************************)
NoResizeCall == [seg |-> <<>>, target_ms |-> 0, done |-> FALSE, result |-> <<>>]

\* a recognisable buffer per role: a ramp on a role-specific level
RoleLevel(k) ==
    CASE k = 1 -> 1000 [] k = 2 -> 200 [] k = 3 -> 30 [] k = 4 -> 4
      [] k = 5 -> 30000 [] k = 6 -> 600

RoleBuffer(k, n) == [i \in 1..n |-> RoleLevel(k) + i]

RoleChoices(k) == {None} \cup {Some(RoleBuffer(k, n)) : n \in 0..MaxStemLen}

GainTuples == [1..4 -> GainValues]
\* the gain tuples calls are drawn with: bass and other share a gain
DrawnGainTuples == {g \in GainTuples : g[3] = g[4]}

NoMixCall ==
    [vocals |-> None, drums |-> None, bass |-> None, other |-> None,
     replace_vocals |-> None, replace_instrumental |-> None,
     gains_db |-> <<0, 0, 0, 0>>, done |-> FALSE, result |-> Returned(<<>>)]

MixOf(c) ==
    mix_stems(c.vocals, c.drums, c.bass, c.other, c.replace_vocals,
              c.replace_instrumental, c.gains_db)

\* the durations of the buffers a call passes
InputLens(c) ==
    {Len(o.seg) : o \in Segments(c.vocals, c.drums, c.bass, c.other, c.replace_vocals,
                                 c.replace_instrumental)}

CallResize ==
    /\ ~resizeCall.done
    /\ resizeCall' = [resizeCall EXCEPT !.done = TRUE,
                                        !.result = trim_or_pad(resizeCall.seg,
                                                               resizeCall.target_ms)]
    /\ UNCHANGED <<mixCall, runVars>>

CallMix ==
    /\ ~mixCall.done
    /\ mixCall' = [mixCall EXCEPT !.done = TRUE, !.result = MixOf(mixCall)]
    /\ UNCHANGED <<resizeCall, runVars>>

(***************************************************************************)
(* The filesystem.  A path is a sequence of names; fs maps every existing  *)
(* path to its node.  by is the run that created the node (0: it was there *)
(* before any run); a file carries its sample rate and its samples.        *)
(***************************************************************************)
Runs == {1, 2}

Dir(by) ==
    [kind |-> "dir", by |-> by, rate |-> 0, channels |-> 0, width |-> 0, samples |-> <<>>]
File(by, rate, channels, width, samples) ==
    [kind |-> "file", by |-> by, rate |-> rate, channels |-> channels, width |-> width,
     samples |-> samples]

Exists(f, p) == p \in DOMAIN f
IsDir(f, p) == Exists(f, p) /\ f[p].kind = "dir"
IsPrefix(p, q) == Len(p) <= Len(q) /\ SubSeq(q, 1, Len(p)) = p
Prefixes(p) == {SubSeq(p, 1, k) : k \in 1..Len(p)}
\* path.iterdir()
Children(f, p) == {q \in DOMAIN f : Len(q) = Len(p) + 1 /\ IsPrefix(p, q)}
Descendants(f, p) == {q \in DOMAIN f : Len(q) > Len(p) /\ IsPrefix(p, q)}
Restrict(f, S) == [q \in S |-> f[q]]
\* shutil.rmtree(p)
RmTree(f, p) == Restrict(f, DOMAIN f \ ({p} \cup Descendants(f, p)))
\* p.unlink()
Unlink(f, p) == Restrict(f, DOMAIN f \ {p})
Put(f, p, node) == [q \in DOMAIN f \cup {p} |-> IF q = p THEN node ELSE f[q]]
\* shutil.move(src, dst) of a file
Move(f, src, dst) == Unlink(Put(f, dst, f[src]), src)

\* ensure_dir(path): path.mkdir(parents=True, exist_ok=True)
ensure_dir(f, p, r) ==
    [q \in DOMAIN f \cup Prefixes(p) |-> IF q \in DOMAIN f THEN f[q] ELSE Dir(r)]

(***************************************************************************)
(* Paths of main and run_demucs.                                           *)
(***************************************************************************)
StemNames == {"vocals", "drums", "bass", "other"}
StemRole(name) ==
    CASE name = "vocals" -> 1 [] name = "drums" -> 2 [] name = "bass" -> 3 [] name = "other" -> 4

\* model = "htdemucs"
model == "htdemucs"

InputPath(name) == <<"inputs", name>>
\* a mutant: one separated directory for all runs, whatever their --output-dir
separated_root_shared(output_dir) == <<"outputs", "separated">>
\* separated_root = output_dir / "separated"
separated_root(output_dir) == <<output_dir, "separated">>
\* final_root = output_dir / "final"
final_root(output_dir) == <<output_dir, "final">>
\* model_dir = separated_root / model
model_dir(output_dir) == separated_root(output_dir) \o <<model>>
\* what Demucs writes: separated_root / model / track_basename / <stem>.wav
track_dir(output_dir, track) == model_dir(output_dir) \o <<track>>
\* get(name) = stems_dir / f"{name}.wav", with stems_dir = separated_root
stem_path(output_dir, name) == separated_root(output_dir) \o <<name>>
\* pre_master_wav = final_root / f"{input_path.stem}_premaster.wav"
pre_master_wav(output_dir, track) == final_root(output_dir) \o <<track, "premaster.wav">>
\* mastered_wav = final_root / f"{input_path.stem}_final_master.wav"
mastered_wav(output_dir, track) == final_root(output_dir) \o <<track, "final_master.wav">>

(***************************************************************************)
(* The options of main and the locals of a run.                            *)
(***************************************************************************)
OutputDirs == {"outA", "outB"}
Tracks == {"song1", "song2"}
\* --sample-rate (default 44100)
SampleRates == {44100, 48000}
\* --master-target-lufs (default -10.0)
TargetLufs == {-10, -14}

NoPath == [present |-> FALSE, path |-> <<>>]
SomePath(p) == [present |-> TRUE, path |-> p]

NoRequest ==
    [issued |-> FALSE, input |-> <<>>, output |-> <<>>, acodec |-> "", loudnorm_I |-> 0,
     loudnorm_TP |-> 0, alimiter_limit |-> 0, ac |-> 0, ar |-> 0]

NoLocals ==
    [pending |-> {}, latest |-> <<>>,
     vocals_seg |-> None, drums_seg |-> None, bass_seg |-> None, other_seg |-> None,
     replace_vocals_seg |-> None, replace_instrumental_seg |-> None,
     mix |-> <<>>, reason |-> "", request |-> NoRequest]

\* the length of the audio of an input track, and the files the runs are given
TrackLen(track) == IF track = "song1" THEN 1 ELSE MaxStemLen

InputFiles ==
    [p \in {InputPath(t) : t \in Tracks} \cup {InputPath("new_vocals"), InputPath("new_backing")} |->
        IF p = InputPath("new_vocals") THEN File(0, 48000, 1, SampleWidth, RoleBuffer(5, MaxStemLen))
        ELSE IF p = InputPath("new_backing") THEN File(0, 44100, Channels, SampleWidth, RoleBuffer(6, 1))
        ELSE File(0, 44100, Channels, SampleWidth, RoleBuffer(1, TrackLen(p[2])))]

Configs(dirs, tracks, stemSets, replacements, rates, gains, lufs) ==
    [input_path : tracks, output_dir : dirs, engine_stems : stemSets,
     replace_vocals : IF replacements THEN {NoPath, SomePath(InputPath("new_vocals"))}
                      ELSE {NoPath},
     replace_instrumental : IF replacements THEN {NoPath, SomePath(InputPath("new_backing"))}
                            ELSE {NoPath},
     gains_db : gains, master_target_lufs : lufs, sample_rate : rates]

InFlight(r) == pc[r] \notin {"off", "start", "done", "failed"}

Touch(r, R, W) ==
    /\ reads' = [reads EXCEPT ![r] = @ \cup R]
    /\ writes' = [writes EXCEPT ![r] = @ \cup W]

\* a mutant: the error is swallowed and the run reports success
FailSwallowed(r, why) ==
    /\ pc' = [pc EXCEPT ![r] = "done"]
    /\ run' = [run EXCEPT ![r].reason = why]

\* an exception leaves main (or sys.exit(1)): the run ends, nothing after runs
Fail(r, why) ==
    /\ pc' = [pc EXCEPT ![r] = "failed"]
    /\ run' = [run EXCEPT ![r].reason = why]

Goto(r, label) == pc' = [pc EXCEPT ![r] = label]

(***************************************************************************)
(* main, lines 214-222: the ffmpeg check and the two directories.          *)
(***************************************************************************)
Start(r) ==
    /\ pc[r] = "start"
    /\ order' = [order EXCEPT ![r] = Cardinality({q \in Runs : order[q] > 0}) + 1]
    /\ concurrent' = (concurrent \/ \E q \in Runs \ {r} : InFlight(q))
    /\ UNCHANGED <<callVars, cfg>>
    /\ \/ \* check_ffmpeg_available() is False: sys.exit(1)
          /\ Fail(r, "ffmpeg not found")
          /\ UNCHANGED <<fs, reads, writes>>
       \/ LET sep == separated_root(cfg[r].output_dir)
              fin == final_root(cfg[r].output_dir)
              made == ensure_dir(ensure_dir(fs, sep, r), fin, r)
          IN /\ fs' = made
             /\ Touch(r, Prefixes(sep) \cup Prefixes(fin), DOMAIN made \ DOMAIN fs)
             /\ Goto(r, "enter")
             /\ UNCHANGED run

(***************************************************************************)
(* run_demucs, lines 44-51: ensure_dir, then clear what is there.          *)
(***************************************************************************)
\* a mutant: the clearing loop is skipped
ToClearNothing(f, root) == {}
\* for existing in separated_root.iterdir()
ToClear(f, root) == Children(f, root)

Enter(r) ==
    /\ pc[r] = "enter"
    /\ LET sep == separated_root(cfg[r].output_dir)
           made == ensure_dir(fs, sep, r)
       IN /\ fs' = made
          /\ run' = [run EXCEPT ![r].pending = ToClear(made, sep)]
          /\ Touch(r, Prefixes(sep) \cup Children(made, sep), DOMAIN made \ DOMAIN fs)
    /\ Goto(r, "clear")
    /\ UNCHANGED <<callVars, cfg, order, concurrent>>

\* if existing.is_dir(): shutil.rmtree(existing) else: existing.unlink()
ClearOne(f, existing) == IF IsDir(f, existing) THEN RmTree(f, existing) ELSE Unlink(f, existing)

Clear(r) ==
    /\ pc[r] = "clear"
    /\ UNCHANGED <<callVars, cfg, order, concurrent>>
    /\ IF run[r].pending = {}
       THEN /\ Goto(r, "demucs")
            /\ UNCHANGED <<run, fs, reads, writes>>
       ELSE \E existing \in run[r].pending :
              IF Exists(fs, existing)
              THEN /\ fs' = ClearOne(fs, existing)
                   /\ run' = [run EXCEPT ![r].pending = @ \ {existing}]
                   /\ Touch(r, {existing}, DOMAIN fs \ DOMAIN ClearOne(fs, existing))
                   /\ UNCHANGED pc
              ELSE \* the entry is gone: unlink raises FileNotFoundError
                   /\ Fail(r, "FileNotFoundError")
                   /\ Touch(r, {existing}, {})
                   /\ UNCHANGED fs

(***************************************************************************)
(* run_demucs, lines 52-76: the Demucs subprocess.  It is an external      *)
(* program: it exits 0 or not, and it has written nothing, its model       *)
(* directory only, or a track directory holding the stems it produces for  *)
(* this input (cfg.engine_stems), each as long as the input.               *)
(***************************************************************************)
DemucsWrites == {"nothing", "model_dir", "stems"}

DemucsOutput(f, r, wrote) ==
    LET out == cfg[r].output_dir
        track == cfg[r].input_path
        td == track_dir(out, track)
        base == ensure_dir(f, td, r)
        stems == {td \o <<name>> : name \in cfg[r].engine_stems}
    IN CASE wrote = "nothing" -> f
         [] wrote = "model_dir" -> ensure_dir(f, model_dir(out), r)
         [] wrote = "stems" ->
              [q \in DOMAIN base \cup stems |->
                  IF q \in stems
                  THEN File(r, 44100, Channels, SampleWidth,
                            RoleBuffer(StemRole(q[Len(q)]), TrackLen(track)))
                  ELSE base[q]]

Demucs(r) ==
    /\ pc[r] = "demucs"
    /\ UNCHANGED <<callVars, cfg, order, concurrent>>
    /\ \E wrote \in DemucsWrites :
         LET made == DemucsOutput(fs, r, wrote)
         IN /\ fs' = made
            /\ Touch(r, {InputPath(cfg[r].input_path)},
                     {q \in DOMAIN made : q \notin DOMAIN fs \/ made[q] # fs[q]})
            /\ \/ Goto(r, "find") /\ UNCHANGED run
               \/ \* subprocess.run(cmd, check=True): non-zero exit
                  Fail(r, "CalledProcessError")

(***************************************************************************)
(* run_demucs, lines 78-87: the directory Demucs wrote.                    *)
(***************************************************************************)
Find(r) ==
    /\ pc[r] = "find"
    /\ UNCHANGED <<callVars, cfg, order, concurrent, fs>>
    /\ LET md == model_dir(cfg[r].output_dir)
           candidates == {q \in Children(fs, md) : IsDir(fs, q)}
       IN IF ~Exists(fs, md)
          THEN /\ Fail(r, "Demucs output directory not found.")
               /\ Touch(r, {md}, {})
          ELSE IF candidates = {}
          THEN /\ Fail(r, "No Demucs stems directory found.")
               /\ Touch(r, {md} \cup Children(fs, md), {})
          ELSE \* latest = max(candidates, key=mtime): any of them may be the newest
               \E latest \in candidates :
                 /\ run' = [run EXCEPT ![r].latest = latest,
                                       ![r].pending = Children(fs, latest)]
                 /\ Touch(r, {md} \cup Children(fs, md) \cup Children(fs, latest), {})
                 /\ Goto(r, "flatten")

(***************************************************************************)
(* run_demucs, lines 89-97: flatten the stems into separated_root.         *)
(***************************************************************************)
FlattenOne(f, item, target_path) ==
    Move(IF Exists(f, target_path) THEN ClearOne(f, target_path) ELSE f, item, target_path)

Flatten(r) ==
    /\ pc[r] = "flatten"
    /\ UNCHANGED <<callVars, cfg, order, concurrent>>
    /\ IF run[r].pending = {}
       THEN /\ Goto(r, "cleanup")
            /\ UNCHANGED <<run, fs, reads, writes>>
       ELSE \E item \in run[r].pending :
              LET target_path == separated_root(cfg[r].output_dir) \o <<item[Len(item)]>>
              IN IF Exists(fs, item)
                 THEN /\ fs' = FlattenOne(fs, item, target_path)
                      /\ run' = [run EXCEPT ![r].pending = @ \ {item}]
                      /\ Touch(r, {item, target_path},
                               {item, target_path} \cup Descendants(fs, target_path))
                      /\ UNCHANGED pc
                 ELSE /\ Fail(r, "FileNotFoundError")
                      /\ Touch(r, {item, target_path}, {})
                      /\ UNCHANGED fs

(***************************************************************************)
(* run_demucs, lines 99-102: remove the directories Demucs created.        *)
(***************************************************************************)
Cleanup(r) ==
    /\ pc[r] = "cleanup"
    /\ LET md == model_dir(cfg[r].output_dir)
       IN /\ fs' = RmTree(fs, md)
          /\ Touch(r, {md}, DOMAIN fs \ DOMAIN RmTree(fs, md))
    /\ Goto(r, "load")
    /\ UNCHANGED <<callVars, cfg, order, concurrent, run>>

(***************************************************************************)
(* main, lines 231-248: load the stems that exist and the replacements.    *)
(***************************************************************************)
\* load_audio_segment(path, target_sr): resampling to target_sr keeps the
\* duration, so at one sample per millisecond the samples are the file's
load_audio_segment(f, path, target_sr) == f[path].samples

\* a mutant: a missing stem file is loaded all the same
optional_seg_unchecked(f, path, target_sr) ==
    IF Exists(f, path) THEN Some(load_audio_segment(f, path, target_sr))
    ELSE Some(<<>>)
\* optional_seg(p) = load_audio_segment(p, sample_rate) if p.exists() else None
optional_seg(f, path, target_sr) ==
    IF Exists(f, path) THEN Some(load_audio_segment(f, path, target_sr)) ELSE None

\* load_audio_segment(replace_vocals, sample_rate) if replace_vocals else None
replacement_seg(f, opt, target_sr) ==
    IF opt.present THEN Some(load_audio_segment(f, opt.path, target_sr)) ELSE None

StemFiles(f, r) == {n \in StemNames : Exists(f, stem_path(cfg[r].output_dir, n))}

ToDecode(f, r) ==
    {stem_path(cfg[r].output_dir, n) : n \in StemFiles(f, r)}
        \cup (IF cfg[r].replace_vocals.present THEN {cfg[r].replace_vocals.path} ELSE {})
        \cup (IF cfg[r].replace_instrumental.present
              THEN {cfg[r].replace_instrumental.path} ELSE {})

Load(r) ==
    /\ pc[r] = "load"
    /\ UNCHANGED <<callVars, cfg, order, concurrent, fs>>
    /\ Touch(r, {stem_path(cfg[r].output_dir, n) : n \in StemNames} \cup ToDecode(fs, r), {})
    /\ \/ LET out == cfg[r].output_dir
              sr == cfg[r].sample_rate
          IN /\ run' = [run EXCEPT
                          ![r].vocals_seg = optional_seg(fs, stem_path(out, "vocals"), sr),
                          ![r].drums_seg = optional_seg(fs, stem_path(out, "drums"), sr),
                          ![r].bass_seg = optional_seg(fs, stem_path(out, "bass"), sr),
                          ![r].other_seg = optional_seg(fs, stem_path(out, "other"), sr),
                          ![r].replace_vocals_seg =
                              replacement_seg(fs, cfg[r].replace_vocals, sr),
                          ![r].replace_instrumental_seg =
                              replacement_seg(fs, cfg[r].replace_instrumental, sr)]
             /\ Goto(r, "compose")
       \/ \* AudioSegment.from_file cannot decode one of the files
          /\ ToDecode(fs, r) # {}
          /\ Fail(r, "CouldntDecodeError")

(***************************************************************************)
(* main, lines 250-259: mix.                                               *)
(***************************************************************************)
MixOfRun(r) ==
    mix_stems(run[r].vocals_seg, run[r].drums_seg, run[r].bass_seg, run[r].other_seg,
              run[r].replace_vocals_seg, run[r].replace_instrumental_seg, cfg[r].gains_db)

Compose(r) ==
    /\ pc[r] = "compose"
    /\ UNCHANGED <<callVars, cfg, order, concurrent, fs, reads, writes>>
    /\ IF MixOfRun(r).error # "none"
       THEN Fail(r, MixOfRun(r).error)
       ELSE /\ run' = [run EXCEPT ![r].mix = MixOfRun(r).seg]
            /\ Goto(r, "export")

(***************************************************************************)
(* main, lines 261-265: export the premaster.                              *)
(***************************************************************************)
\* mix.set_frame_rate(sample_rate).set_channels(2).set_sample_width(2), exported as wav
PremasterFile(r) == File(r, cfg[r].sample_rate, Channels, SampleWidth, run[r].mix)

Export(r) ==
    /\ pc[r] = "export"
    /\ LET pre == pre_master_wav(cfg[r].output_dir, cfg[r].input_path)
       IN /\ fs' = Put(fs, pre, PremasterFile(r))
          /\ Touch(r, {}, {pre})
    /\ Goto(r, "master")
    /\ UNCHANGED <<callVars, cfg, order, concurrent, run>>

(***************************************************************************)
(* apply_mastering_ffmpeg(input_wav, output_wav, target_lufs) and main,    *)
(* lines 267-271.  The request is what the function hands to ffmpeg; the   *)
(* executor writes the output file in the requested format, or fails.      *)
(***************************************************************************)
apply_mastering_request(input_wav, output_wav, target_lufs) ==
    [issued |-> TRUE, input |-> input_wav, output |-> output_wav, acodec |-> "pcm_s16le",
     loudnorm_I |-> target_lufs, loudnorm_TP |-> LimitDbtp,
     alimiter_limit |-> db_to_ratio(LimitDbtp), ac |-> Channels, ar |-> MasterAr]

\* the last stage of the chain: alimiter
Limited(seg, limit) ==
    LET ceiling == (MaxSample * limit) \div 1000
    IN [i \in 1..Len(seg) |->
           IF seg[i] > ceiling THEN ceiling ELSE IF seg[i] < -ceiling THEN -ceiling ELSE seg[i]]

\* the file the executor writes for a request
Executed(f, r, req) ==
    File(r, req.ar, req.ac, IF req.acodec = "pcm_s16le" THEN SampleWidth ELSE f[req.input].width,
         Limited(f[req.input].samples, req.alimiter_limit))

Master(r) ==
    /\ pc[r] = "master"
    /\ UNCHANGED <<callVars, cfg, order, concurrent>>
    /\ LET req == apply_mastering_request(pre_master_wav(cfg[r].output_dir, cfg[r].input_path),
                                          mastered_wav(cfg[r].output_dir, cfg[r].input_path),
                                          cfg[r].master_target_lufs)
       IN \/ /\ Exists(fs, req.input)
             /\ fs' = Put(fs, req.output, Executed(fs, r, req))
             /\ run' = [run EXCEPT ![r].request = req]
             /\ Touch(r, {req.input}, {req.output})
             /\ Goto(r, "done")
          \/ \* ffmpeg.Error: RuntimeError("FFmpeg mastering failed: ...")
             /\ pc' = [pc EXCEPT ![r] = "failed"]
             /\ run' = [run EXCEPT ![r].request = req, ![r].reason = "RuntimeError"]
             /\ Touch(r, {req.input}, {})
             /\ UNCHANGED fs

(***************************************************************************)
(* Specifications.                                                         *)
(***************************************************************************)
Step(r) ==
    \/ Start(r)
    \/ Enter(r)
    \/ Clear(r)
    \/ Demucs(r)
    \/ Find(r)
    \/ Flatten(r)
    \/ Cleanup(r)
    \/ Load(r)
    \/ Compose(r)
    \/ Export(r)
    \/ Master(r)

Next == \E r \in Runs : Step(r)

NoCalls ==
    /\ resizeCall = [NoResizeCall EXCEPT !.done = TRUE]
    /\ mixCall = [NoMixCall EXCEPT !.done = TRUE]

IdleConfig ==
    [input_path |-> "song1", output_dir |-> "outA", engine_stems |-> {},
     replace_vocals |-> NoPath, replace_instrumental |-> NoPath,
     gains_db |-> <<0, 0, 0, 0>>, master_target_lufs |-> -10, sample_rate |-> 44100]

InitRuns(first, second, labels) ==
    /\ cfg \in [Runs -> first \cup second \cup {IdleConfig}]
    /\ cfg[1] \in first
    /\ cfg[2] \in second
    /\ pc = labels
    /\ run = [r \in Runs |-> NoLocals]
    /\ fs = InputFiles
    /\ reads = [r \in Runs |-> {}]
    /\ writes = [r \in Runs |-> {}]
    /\ order = [r \in Runs |-> 0]
    /\ concurrent = FALSE

\* one run of main, over every set of stems the separation may produce
Init ==
    /\ NoCalls
    /\ InitRuns(Configs({"outA"}, Tracks, SUBSET StemNames, TRUE, SampleRates,
                        {<<0, 0, 0, 0>>, <<-6, 0, -6, 0>>}, TargetLufs),
                {IdleConfig}, [r \in Runs |-> IF r = 1 THEN "start" ELSE "off"])

Spec == Init /\ [][Next]_vars

\* two runs of main, in the same or in different output directories, one
\* after the other or interleaved
InitTwoRuns ==
    /\ NoCalls
    /\ LET each == Configs(OutputDirs, Tracks, {{"vocals", "drums"}, {}}, FALSE, {44100},
                           {<<0, 0, 0, 0>>}, {-10})
       IN InitRuns({c \in each : c.output_dir = "outA"}, each, [r \in Runs |-> "start"])

SpecRuns == InitTwoRuns /\ [][Next]_vars

AllOff == InitRuns({IdleConfig}, {IdleConfig}, [r \in Runs |-> "off"])

\* calls of trim_or_pad on every buffer and target duration within the bounds
InitResize ==
    /\ resizeCall \in [seg : BuffersUpTo(MaxBufLen), target_ms : 0..(MaxBufLen + 1),
                       done : {FALSE}, result : {<<>>}]
    /\ mixCall = [NoMixCall EXCEPT !.done = TRUE]
    /\ AllOff

SpecResize == InitResize /\ [][CallResize]_vars

\* calls of mix_stems on every combination of present and absent buffers
InitMix ==
    /\ resizeCall = [NoResizeCall EXCEPT !.done = TRUE]
    /\ mixCall \in [vocals : RoleChoices(1), drums : RoleChoices(2), bass : RoleChoices(3),
                    other : RoleChoices(4), replace_vocals : RoleChoices(5),
                    replace_instrumental : RoleChoices(6), gains_db : DrawnGainTuples,
                    done : {FALSE}, result : {Returned(<<>>)}]
    /\ AllOff

SpecMix == InitMix /\ [][CallMix]_vars

(***************************************************************************)
(* Properties.                                                             *)
(***************************************************************************)
PostSeparate == {"load", "compose", "export", "master", "done"}

\* C1: when a run of run_demucs follows another one in the same directory
\* (the earlier run has ended, completed or failed, before the later one
\* starts), then once the later run has returned from run_demucs every entry
\* below its separated directory was produced by the later run: nothing the
\* earlier run left is still there.
C1_SeparatedIsFresh ==
    \A r \in Runs :
        (order[r] = 2 /\ ~concurrent /\ pc[r] \in PostSeparate)
            => \A p \in Descendants(fs, separated_root(cfg[r].output_dir)) : fs[p].by = r

\* run 2 follows run 1 in the same directory on a different input; run 1 left
\* its vocals and drums stems there and run 2, whose separation produced no
\* stems, has returned from run_demucs
C1_Witness ==
    /\ order[2] = 2 /\ ~concurrent /\ pc[2] = "load"
    /\ cfg[1].output_dir = cfg[2].output_dir
    /\ cfg[1].input_path # cfg[2].input_path
    /\ stem_path(cfg[1].output_dir, "vocals") \in writes[1]
    /\ pc[1] = "done"
    /\ cfg[2].engine_stems = {}

(***************************************************************************)
\* the pipeline stage a statement of main belongs to
Rank(label) ==
    CASE label \in {"off", "start"} -> 0
      [] label \in {"enter", "clear", "demucs", "find", "flatten", "cleanup"} -> 1
      [] label = "load" -> 2
      [] label = "compose" -> 3
      [] label = "export" -> 4
      [] label = "master" -> 5
      [] label = "done" -> 6
      [] label = "failed" -> 7

WrotePremaster(r) ==
    LET pre == pre_master_wav(cfg[r].output_dir, cfg[r].input_path)
    IN pre \in writes[r] /\ Exists(fs, pre) /\ fs[pre].by = r

WroteFinal(r) ==
    LET out == mastered_wav(cfg[r].output_dir, cfg[r].input_path)
    IN out \in writes[r] /\ Exists(fs, out) /\ fs[out].by = r

\* C2: in every run of main the stages start in the order Separate, LoadStems,
\* Compose, ExportPremaster, Master (whose executor writes the final file),
\* Done, each entered only from the one before it; a run that failed or is
\* done takes no further step, and a failing stage leads to Failed and nowhere
\* else; Master is entered only once this run wrote its premaster file, and
\* Done is reached only with the mastering request issued and the final file
\* written by this run.
C2_StageOrder ==
    /\ [][\A r \in Runs :
            pc'[r] # pc[r] =>
                /\ pc[r] \notin {"done", "failed"}
                /\ \/ pc'[r] = "failed"
                   \/ Rank(pc'[r]) \in {Rank(pc[r]), Rank(pc[r]) + 1}]_vars
    /\ [](\A r \in Runs :
            /\ pc[r] \in {"master", "done"} => WrotePremaster(r)
            /\ pc[r] = "done" => run[r].request.issued /\ WroteFinal(r))

\* a run went through every stage and is done
C2_Witness == pc[1] = "done" /\ WroteFinal(1) /\ WrotePremaster(1)

(***************************************************************************)
\* C3: whenever at least one of the six buffers is present, mix_stems returns
\* a mix whose duration is the maximum duration of the buffers present.
C3_MixDuration ==
    (mixCall.done /\ InputLens(mixCall) # {})
        => /\ mixCall.result.error = "none"
           /\ Len(mixCall.result.seg) = Max(InputLens(mixCall))

\* a call with a replacement instrumental shorter than the replacement vocals,
\* stems shorter still, which returned a mix as long as the longest
C3_Witness ==
    /\ mixCall.done
    /\ mixCall.replace_instrumental.present /\ Len(mixCall.replace_instrumental.seg) = 1
    /\ mixCall.replace_vocals.present /\ Len(mixCall.replace_vocals.seg) = MaxStemLen
    /\ mixCall.drums.present /\ Len(mixCall.drums.seg) = 0
    /\ ~mixCall.vocals.present
    /\ Len(mixCall.result.seg) = MaxStemLen

(***************************************************************************)
\* C4: with a replacement instrumental, the drums, bass and other gains do not
\* reach the mix: the call made with any other three values for them returns
\* the same result.
C4_GainsIgnored ==
    (mixCall.done /\ mixCall.replace_instrumental.present)
        => \A g \in GainTuples :
              g[1] = mixCall.gains_db[1]
                  => MixOf([mixCall EXCEPT !.gains_db = g]) = mixCall.result

\* a call with a non-empty replacement instrumental, all three stems present
\* and non-zero gains on drums and other
C4_Witness ==
    /\ mixCall.done
    /\ mixCall.replace_instrumental.present /\ Len(mixCall.replace_instrumental.seg) > 0
    /\ mixCall.drums.present /\ mixCall.bass.present /\ mixCall.other.present
    /\ Len(mixCall.drums.seg) > 0
    /\ mixCall.gains_db[2] = -6 /\ mixCall.gains_db[4] = -6
    /\ mixCall.result.error = "none"

(***************************************************************************)
VocalChoices == {None} \cup {Some(b) : b \in BuffersUpTo(MaxStemLen)}

\* C5 as stated: with replacement vocals, the call made with any other
\* separated vocal stem (absent, or of any content and duration) returns the
\* same mix.
C5_VocalStemIgnored ==
    (mixCall.done /\ mixCall.replace_vocals.present)
        => \A v \in VocalChoices : MixOf([mixCall EXCEPT !.vocals = v]) = mixCall.result

\* C5 as amended: with replacement vocals, the call made with any other
\* separated vocal stem that leaves the maximum duration of the buffers
\* unchanged returns the same mix, and the mix is the instrumental bed
\* overlaid with the replacement vocals padded to that duration and adjusted
\* by the vocals gain.
C5_VocalStemOnlyLengthens ==
    (mixCall.done /\ mixCall.replace_vocals.present)
        => /\ \A v \in VocalChoices :
                 Max(InputLens([mixCall EXCEPT !.vocals = v])) = Max(InputLens(mixCall))
                     => MixOf([mixCall EXCEPT !.vocals = v]) = mixCall.result
           /\ LET T == Max(InputLens(mixCall))
              IN mixCall.result =
                    Returned(Overlay(Instrumental(mixCall.drums, mixCall.bass, mixCall.other,
                                                  mixCall.replace_instrumental,
                                                  mixCall.gains_db, T),
                                     ApplyGain(trim_or_pad(mixCall.replace_vocals.seg, T),
                                               mixCall.gains_db[1])))

\* a call with non-empty replacement vocals, a non-empty separated vocal stem
\* and a vocals gain other than 0 dB
C5_Witness ==
    /\ mixCall.done
    /\ mixCall.replace_vocals.present /\ Len(mixCall.replace_vocals.seg) = MaxStemLen
    /\ mixCall.vocals.present /\ Len(mixCall.vocals.seg) > 0
    /\ mixCall.gains_db[1] = -6
    /\ mixCall.result.error = "none"

(***************************************************************************)
AllAbsent(c) ==
    Segments(c.vocals, c.drums, c.bass, c.other, c.replace_vocals, c.replace_instrumental) = {}

\* C6: with all six buffers absent mix_stems raises ValueError ("No audio
\* segments to mix.") and returns no buffer, whatever the gains.
C6_EmptyMixFails ==
    (mixCall.done /\ ~mixCall.vocals.present /\ ~mixCall.drums.present
        /\ ~mixCall.bass.present /\ ~mixCall.other.present
        /\ ~mixCall.replace_vocals.present /\ ~mixCall.replace_instrumental.present)
        => mixCall.result = Raised("ValueError")

\* a call with nothing to mix and gains other than the defaults
C6_Witness ==
    /\ mixCall.done /\ AllAbsent(mixCall)
    /\ mixCall.gains_db = <<-6, 0, -6, -6>>
    /\ mixCall.result.error = "ValueError"

(***************************************************************************)
AnyLoaded(l) ==
    Segments(l.vocals_seg, l.drums_seg, l.bass_seg, l.other_seg,
             l.replace_vocals_seg, l.replace_instrumental_seg) # {}

LoadedLens(l) ==
    {Len(o.seg) : o \in Segments(l.vocals_seg, l.drums_seg, l.bass_seg, l.other_seg,
                                 l.replace_vocals_seg, l.replace_instrumental_seg)}

\* an absent stem replaced by silence of the given duration
OrSilence(o, n) == IF o.present THEN o ELSE Some(Silent(n))

\* the mix of the loaded buffers with every absent stem given as silence
MixWithSilence(l, gains_db) ==
    LET T == Max(LoadedLens(l))
    IN mix_stems(OrSilence(l.vocals_seg, T), OrSilence(l.drums_seg, T),
                 OrSilence(l.bass_seg, T), OrSilence(l.other_seg, T),
                 l.replace_vocals_seg, l.replace_instrumental_seg, gains_db)

LoadedAsFound(r) ==
    /\ run'[r].vocals_seg.present <=> Exists(fs, stem_path(cfg[r].output_dir, "vocals"))
    /\ run'[r].drums_seg.present <=> Exists(fs, stem_path(cfg[r].output_dir, "drums"))
    /\ run'[r].bass_seg.present <=> Exists(fs, stem_path(cfg[r].output_dir, "bass"))
    /\ run'[r].other_seg.present <=> Exists(fs, stem_path(cfg[r].output_dir, "other"))

\* C7 as stated: whatever subset of the four stem files is absent after
\* separation, LoadStems and Compose do not fail for it: LoadStems ends only
\* in Compose or in a decoding failure of a file that is there, and Compose
\* always proceeds to ExportPremaster.
C7_AnySubsetTolerated ==
    [][\A r \in Runs :
         /\ (pc[r] = "load" /\ pc'[r] # "load")
               => \/ pc'[r] = "compose"
                  \/ pc'[r] = "failed" /\ run'[r].reason = "CouldntDecodeError"
         /\ (pc[r] = "compose" /\ pc'[r] # "compose") => pc'[r] = "export"]_vars

\* C7 as amended: LoadStems loads exactly the stem files that exist and fails
\* only when a file that is there cannot be decoded, never for a missing
\* stem; Compose, when at least one of the six buffers was loaded, proceeds to
\* ExportPremaster with the mix in which every absent stem counts as silence;
\* when nothing was loaded (all four stems missing and no replacement given)
\* Compose fails with the ValueError of mix_stems and the run ends in Failed.
C7_MissingStemsAreSilence ==
    [][\A r \in Runs :
         /\ (pc[r] = "load" /\ pc'[r] # "load")
               => \/ pc'[r] = "compose" /\ LoadedAsFound(r)
                  \/ /\ pc'[r] = "failed" /\ run'[r].reason = "CouldntDecodeError"
                     /\ ToDecode(fs, r) # {}
         /\ (pc[r] = "compose" /\ pc'[r] # "compose")
               => IF AnyLoaded(run[r])
                  THEN /\ pc'[r] = "export"
                       /\ Returned(run'[r].mix) = MixWithSilence(run[r], cfg[r].gains_db)
                  ELSE pc'[r] = "failed" /\ run'[r].reason = "ValueError"]_vars

\* a run whose separation left only the drums stem, with no replacement, went
\* through LoadStems and Compose and on to the end
C7_Witness ==
    /\ pc[1] = "done"
    /\ ~run[1].vocals_seg.present /\ ~run[1].bass_seg.present /\ ~run[1].other_seg.present
    /\ run[1].drums_seg.present
    /\ ~run[1].replace_vocals_seg.present /\ ~run[1].replace_instrumental_seg.present
    /\ Len(run[1].mix) = MaxStemLen

(***************************************************************************)
\* C8: whatever --sample-rate is configured, the request main hands to the
\* filter-chain executor asks for that sample rate, 2 channels and 16-bit PCM,
\* and the final file of a finished run has the sample rate of the premaster
\* the run exported.
C8_MasterAtConfiguredRate ==
    \A r \in Runs :
        /\ run[r].request.issued
              => /\ run[r].request.ar = cfg[r].sample_rate
                 /\ run[r].request.ac = Channels
                 /\ run[r].request.acodec = "pcm_s16le"
        /\ pc[r] = "done"
              => fs[mastered_wav(cfg[r].output_dir, cfg[r].input_path)].rate
                    = fs[pre_master_wav(cfg[r].output_dir, cfg[r].input_path)].rate

(***************************************************************************)
\* C9: trim_or_pad(seg, target_ms) returns a buffer of exactly target_ms
\* milliseconds, for a buffer longer than, shorter than or as long as
\* target_ms.
C9_ResizeExact ==
    resizeCall.done => Len(resizeCall.result) = resizeCall.target_ms

\* a call that had to pad a non-empty buffer
C9_Witness ==
    /\ resizeCall.done
    /\ Len(resizeCall.seg) > 0
    /\ Len(resizeCall.seg) < resizeCall.target_ms
    /\ Len(resizeCall.result) = resizeCall.target_ms

(***************************************************************************)
\* C10: two runs given different output directories share no file: no path
\* that one run created, replaced or deleted was read, created, replaced or
\* deleted by the other, under every interleaving; every node a run created
\* lies below its own output directory, and every stem and output file a run
\* wrote is still there unless that run removed it itself.
C10_Isolation ==
    cfg[1].output_dir # cfg[2].output_dir
        => \A r \in Runs : \A q \in Runs \ {r} :
              /\ writes[r] \cap (reads[q] \cup writes[q]) = {}
              /\ \A p \in DOMAIN fs : fs[p].by = r => p[1] = cfg[r].output_dir
              /\ \A p \in writes[r] \cap DOMAIN fs : fs[p].by = r

\* two interleaved runs in different directories, both finished, each with
\* its own stems flattened into its own separated directory
C10_Witness ==
    /\ cfg[1].output_dir # cfg[2].output_dir
    /\ concurrent
    /\ pc[1] = "done" /\ pc[2] = "done"
    /\ \A r \in Runs :
          /\ Exists(fs, stem_path(cfg[r].output_dir, "vocals"))
          /\ fs[stem_path(cfg[r].output_dir, "vocals")].by = r

====
